---- MODULE Spec2Model ----
(***************************************************************************)
(* Model of the CS35L41 system test harness, cs35l41/baremetal/main.c:     *)
(* the push-button driven sequencer of main() and the fatal callback       *)
(* app_bsp_callback().  The BSP and the DUT driver are the environment:    *)
(* every call into them is logged, returns a value chosen by the           *)
(* environment, and may invoke the registered callback before returning.   *)
(***************************************************************************)
EXTENDS Integers, Sequences, FiniteSets, TLC

VARIABLES
    pc,               \* the statement of main() about to execute
    app_audio_state,  \* static uint8_t app_audio_state
    bsp_pb_pressed,   \* static bool bsp_pb_pressed
    exit_status,      \* <<>> while the process runs, <<n>> after exit(n)
    iter,             \* BSP calls issued so far in the current loop iteration
    steps,            \* statements of the loop body executed in this iteration
    last_cb,          \* status passed to app_bsp_callback by the last statement
    presses,          \* edge-true dispatch passes since the cycle left CAL_PDN
    check_fails,      \* CHECK_PROCESSING passes of this cycle that read false
    hist              \* audio and DUT commands issued by the switch, latest last

vars == <<pc, app_audio_state, bsp_pb_pressed, exit_status, iter, steps,
          last_cb, presses, check_fails, hist>>

----------------------------------------------------------------------------
(* Bounds *)

\* check_fails counts up to MaxCheckFails and stays there: at the bound it
\* reads "that many or more", and presses stops counting with it.
MaxCheckFails == 2

\* hist keeps the HistLen most recent commands; one cycle issues 18.
HistLen == 20

----------------------------------------------------------------------------
(* Literal substitutions, main.c:32-43 *)

APP_STATE_CAL_PDN          == 0
APP_STATE_CAL_BOOTED       == 1
APP_STATE_CAL_PUP          == 2
APP_STATE_CALIBRATED       == 3
APP_STATE_PDN              == 4
APP_STATE_BOOTED           == 5
APP_STATE_PUP              == 6
APP_STATE_MUTE             == 7
APP_STATE_UNMUTE           == 8
APP_STATE_HIBERNATE        == 9
APP_STATE_WAKE             == 10
APP_STATE_CHECK_PROCESSING == 11

AppStates == APP_STATE_CAL_PDN .. APP_STATE_CHECK_PROCESSING

(* Names of hw_0_bsp.h the harness uses; their values are opaque to it. *)
BSP_STATUS_OK               == "BSP_STATUS_OK"
BSP_PB_ID_USER              == "BSP_PB_ID_USER"
BSP_PLAY_SILENCE            == "BSP_PLAY_SILENCE"
BSP_PLAY_STEREO_1KHZ_20DBFS == "BSP_PLAY_STEREO_1KHZ_20DBFS"
BSP_DUT_ID_LEFT             == "BSP_DUT_ID_LEFT"

\* uint32_t status handed to the callback, and discarded return values.
Statuses == {BSP_STATUS_OK, "BSP_STATUS_FAIL"}

\* uint8_t dut_id as left by bsp_dut_get_id(&dut_id).
DutIds == {BSP_DUT_ID_LEFT, "BSP_DUT_ID_RIGHT", "OTHER"}

NoCallback == "none"

BoolStr(b) == IF b THEN "true" ELSE "false"

----------------------------------------------------------------------------
(* Calls into the BSP *)

\* A call as issued: function and argument.
Call(fn, arg) == [fn |-> fn, arg |-> arg]

\* A call that returned: out is the value written through a pointer
\* argument, ret the returned value.
Done(call, out, ret) ==
    [fn |-> call.fn, arg |-> call.arg, out |-> out, ret |-> ret]

\* A call during which the process exited.
Cut(call) == Done(call, "", "noreturn")

Issued(log) == [i \in DOMAIN log |-> Call(log[i].fn, log[i].arg)]

----------------------------------------------------------------------------
(* app_bsp_callback, main.c:58-66: TRUE when the callback calls exit(1). *)

app_bsp_callback_NeverExits(status) == FALSE

app_bsp_callback(status) == status /= BSP_STATUS_OK

----------------------------------------------------------------------------
(* The switch of main(), main.c:93-214 *)

\* bsp_dut_set_dig_gain argument chosen at main.c:139-146.
DigGain_Swapped(dut_id) == IF dut_id = BSP_DUT_ID_LEFT THEN -10 ELSE -6

DigGain(dut_id) == IF dut_id = BSP_DUT_ID_LEFT THEN -6 ELSE -10

\* The calls of the case of `state`, in program order, as issued when every
\* one of them returns.  dut_id is the value bsp_dut_get_id leaves behind.
SwitchCalls_Reordered(state, pressed, dut_id) ==
    IF ~pressed THEN <<>>
    ELSE CASE state = APP_STATE_CAL_PDN ->
                <<Call("bsp_audio_stop", ""),
                  Call("bsp_dut_reset", ""),
                  Call("bsp_audio_play_record", BSP_PLAY_SILENCE),
                  Call("bsp_dut_boot", "true")>>
           [] state = APP_STATE_CAL_BOOTED -> <<Call("bsp_dut_power_up", "")>>
           [] state = APP_STATE_CAL_PUP -> <<Call("bsp_dut_calibrate", "")>>
           [] state = APP_STATE_CALIBRATED -> <<Call("bsp_dut_power_down", "")>>
           [] state = APP_STATE_PDN ->
                <<Call("bsp_audio_stop", ""),
                  Call("bsp_audio_play_record", BSP_PLAY_STEREO_1KHZ_20DBFS),
                  Call("bsp_dut_reset", ""),
                  Call("bsp_dut_boot", "false"),
                  Call("bsp_dut_get_id", ""),
                  Call("bsp_dut_set_dig_gain", ToString(DigGain(dut_id)))>>
           [] state = APP_STATE_BOOTED -> <<Call("bsp_dut_power_up", "")>>
           [] state = APP_STATE_CHECK_PROCESSING ->
                <<Call("bsp_dut_is_processing", "")>>
           [] state = APP_STATE_PUP -> <<Call("bsp_dut_mute", "true")>>
           [] state = APP_STATE_MUTE -> <<Call("bsp_dut_mute", "false")>>
           [] state = APP_STATE_UNMUTE -> <<Call("bsp_dut_power_down", "")>>
           [] state = APP_STATE_HIBERNATE -> <<Call("bsp_dut_hibernate", "")>>
           [] state = APP_STATE_WAKE -> <<Call("bsp_dut_wake", "")>>
           [] OTHER -> <<>>

SwitchCalls_Unguarded(state, pressed, dut_id) ==
    CASE state = APP_STATE_CAL_PDN ->
            IF pressed
            THEN <<Call("bsp_audio_stop", ""),
                   Call("bsp_audio_play_record", BSP_PLAY_SILENCE),
                   Call("bsp_dut_reset", ""),
                   Call("bsp_dut_boot", "true")>>
            ELSE <<>>
      [] state = APP_STATE_CAL_BOOTED ->
            IF pressed THEN <<Call("bsp_dut_power_up", "")>> ELSE <<>>
      [] state = APP_STATE_CAL_PUP ->
            IF pressed THEN <<Call("bsp_dut_calibrate", "")>> ELSE <<>>
      [] state = APP_STATE_CALIBRATED ->
            IF pressed THEN <<Call("bsp_dut_power_down", "")>> ELSE <<>>
      [] state = APP_STATE_PDN ->
            IF pressed
            THEN <<Call("bsp_audio_stop", ""),
                   Call("bsp_audio_play_record", BSP_PLAY_STEREO_1KHZ_20DBFS),
                   Call("bsp_dut_reset", ""),
                   Call("bsp_dut_boot", "false"),
                   Call("bsp_dut_get_id", ""),
                   Call("bsp_dut_set_dig_gain", ToString(DigGain(dut_id)))>>
            ELSE <<>>
      [] state = APP_STATE_BOOTED ->
            IF pressed THEN <<Call("bsp_dut_power_up", "")>> ELSE <<>>
      [] state = APP_STATE_CHECK_PROCESSING ->
            <<Call("bsp_dut_is_processing", "")>>
      [] state = APP_STATE_PUP ->
            IF pressed THEN <<Call("bsp_dut_mute", "true")>> ELSE <<>>
      [] state = APP_STATE_MUTE ->
            IF pressed THEN <<Call("bsp_dut_mute", "false")>> ELSE <<>>
      [] state = APP_STATE_UNMUTE ->
            IF pressed THEN <<Call("bsp_dut_power_down", "")>> ELSE <<>>
      [] state = APP_STATE_HIBERNATE ->
            IF pressed THEN <<Call("bsp_dut_hibernate", "")>> ELSE <<>>
      [] state = APP_STATE_WAKE ->
            IF pressed THEN <<Call("bsp_dut_wake", "")>> ELSE <<>>
      [] OTHER -> <<>>

\* Variants of single cases; SwitchCalls_Unguarded supplies the other cases,
\* which it issues as the source does whenever pressed is true.
SwitchCalls_PowerUpAgain(state, pressed, dut_id) ==
    IF ~pressed THEN <<>>
    ELSE IF state = APP_STATE_CALIBRATED
         THEN <<Call("bsp_dut_power_up", "")>>
         ELSE SwitchCalls_Unguarded(state, pressed, dut_id)

SwitchCalls_CalBootNormal(state, pressed, dut_id) ==
    IF ~pressed THEN <<>>
    ELSE IF state = APP_STATE_CAL_PDN
         THEN <<Call("bsp_audio_stop", ""),
                Call("bsp_audio_play_record", BSP_PLAY_SILENCE),
                Call("bsp_dut_reset", ""),
                Call("bsp_dut_boot", "false")>>
         ELSE SwitchCalls_Unguarded(state, pressed, dut_id)

SwitchCalls_HibernateTwice(state, pressed, dut_id) ==
    IF ~pressed THEN <<>>
    ELSE IF state = APP_STATE_WAKE
         THEN <<Call("bsp_dut_hibernate", "")>>
         ELSE SwitchCalls_Unguarded(state, pressed, dut_id)

SwitchCalls(state, pressed, dut_id) ==
    CASE state = APP_STATE_CAL_PDN ->
            IF pressed
            THEN <<Call("bsp_audio_stop", ""),
                   Call("bsp_audio_play_record", BSP_PLAY_SILENCE),
                   Call("bsp_dut_reset", ""),
                   Call("bsp_dut_boot", "true")>>
            ELSE <<>>
      [] state = APP_STATE_CAL_BOOTED ->
            IF pressed THEN <<Call("bsp_dut_power_up", "")>> ELSE <<>>
      [] state = APP_STATE_CAL_PUP ->
            IF pressed THEN <<Call("bsp_dut_calibrate", "")>> ELSE <<>>
      [] state = APP_STATE_CALIBRATED ->
            IF pressed THEN <<Call("bsp_dut_power_down", "")>> ELSE <<>>
      [] state = APP_STATE_PDN ->
            IF pressed
            THEN <<Call("bsp_audio_stop", ""),
                   Call("bsp_audio_play_record", BSP_PLAY_STEREO_1KHZ_20DBFS),
                   Call("bsp_dut_reset", ""),
                   Call("bsp_dut_boot", "false"),
                   Call("bsp_dut_get_id", ""),
                   Call("bsp_dut_set_dig_gain", ToString(DigGain(dut_id)))>>
            ELSE <<>>
      [] state = APP_STATE_BOOTED ->
            IF pressed THEN <<Call("bsp_dut_power_up", "")>> ELSE <<>>
      [] state = APP_STATE_CHECK_PROCESSING ->
            IF pressed THEN <<Call("bsp_dut_is_processing", "")>> ELSE <<>>
      [] state = APP_STATE_PUP ->
            IF pressed THEN <<Call("bsp_dut_mute", "true")>> ELSE <<>>
      [] state = APP_STATE_MUTE ->
            IF pressed THEN <<Call("bsp_dut_mute", "false")>> ELSE <<>>
      [] state = APP_STATE_UNMUTE ->
            IF pressed THEN <<Call("bsp_dut_power_down", "")>> ELSE <<>>
      [] state = APP_STATE_HIBERNATE ->
            IF pressed THEN <<Call("bsp_dut_hibernate", "")>> ELSE <<>>
      [] state = APP_STATE_WAKE ->
            IF pressed THEN <<Call("bsp_dut_wake", "")>> ELSE <<>>
      [] OTHER -> <<>>

\* The value app_audio_state holds when the switch is left through a break.
SwitchNext_SkipsCheck(state, pressed, is_processing) ==
    IF ~pressed THEN state
    ELSE CASE state = APP_STATE_CAL_PDN -> APP_STATE_CAL_BOOTED
           [] state = APP_STATE_CAL_BOOTED -> APP_STATE_CAL_PUP
           [] state = APP_STATE_CAL_PUP -> APP_STATE_CALIBRATED
           [] state = APP_STATE_CALIBRATED -> APP_STATE_PDN
           [] state = APP_STATE_PDN -> APP_STATE_BOOTED
           [] state = APP_STATE_BOOTED -> APP_STATE_PUP
           [] state = APP_STATE_CHECK_PROCESSING ->
                IF is_processing THEN APP_STATE_PUP ELSE state
           [] state = APP_STATE_PUP -> APP_STATE_MUTE
           [] state = APP_STATE_MUTE -> APP_STATE_UNMUTE
           [] state = APP_STATE_UNMUTE -> APP_STATE_HIBERNATE
           [] state = APP_STATE_HIBERNATE -> APP_STATE_WAKE
           [] state = APP_STATE_WAKE -> APP_STATE_CAL_PDN
           [] OTHER -> state

SwitchNext_IgnoresStatus(state, pressed, is_processing) ==
    IF ~pressed THEN state
    ELSE CASE state = APP_STATE_CAL_PDN -> APP_STATE_CAL_BOOTED
           [] state = APP_STATE_CAL_BOOTED -> APP_STATE_CAL_PUP
           [] state = APP_STATE_CAL_PUP -> APP_STATE_CALIBRATED
           [] state = APP_STATE_CALIBRATED -> APP_STATE_PDN
           [] state = APP_STATE_PDN -> APP_STATE_BOOTED
           [] state = APP_STATE_BOOTED -> APP_STATE_CHECK_PROCESSING
           [] state = APP_STATE_CHECK_PROCESSING -> APP_STATE_PUP
           [] state = APP_STATE_PUP -> APP_STATE_MUTE
           [] state = APP_STATE_MUTE -> APP_STATE_UNMUTE
           [] state = APP_STATE_UNMUTE -> APP_STATE_HIBERNATE
           [] state = APP_STATE_HIBERNATE -> APP_STATE_WAKE
           [] state = APP_STATE_WAKE -> APP_STATE_CAL_PDN
           [] OTHER -> state

SwitchNext_WakeStays(state, pressed, is_processing) ==
    IF ~pressed THEN state
    ELSE CASE state = APP_STATE_CAL_PDN -> APP_STATE_CAL_BOOTED
           [] state = APP_STATE_CAL_BOOTED -> APP_STATE_CAL_PUP
           [] state = APP_STATE_CAL_PUP -> APP_STATE_CALIBRATED
           [] state = APP_STATE_CALIBRATED -> APP_STATE_PDN
           [] state = APP_STATE_PDN -> APP_STATE_BOOTED
           [] state = APP_STATE_BOOTED -> APP_STATE_CHECK_PROCESSING
           [] state = APP_STATE_CHECK_PROCESSING ->
                IF is_processing THEN APP_STATE_PUP ELSE state
           [] state = APP_STATE_PUP -> APP_STATE_MUTE
           [] state = APP_STATE_MUTE -> APP_STATE_UNMUTE
           [] state = APP_STATE_UNMUTE -> APP_STATE_HIBERNATE
           [] state = APP_STATE_HIBERNATE -> APP_STATE_WAKE
           [] state = APP_STATE_WAKE -> APP_STATE_PDN
           [] OTHER -> state

SwitchNext_CalBootedStays(state, pressed, is_processing) ==
    IF ~pressed THEN state
    ELSE CASE state = APP_STATE_CAL_PDN -> APP_STATE_CAL_BOOTED
           [] state = APP_STATE_CAL_BOOTED -> state
           [] state = APP_STATE_CAL_PUP -> APP_STATE_CALIBRATED
           [] state = APP_STATE_CALIBRATED -> APP_STATE_PDN
           [] state = APP_STATE_PDN -> APP_STATE_BOOTED
           [] state = APP_STATE_BOOTED -> APP_STATE_CHECK_PROCESSING
           [] state = APP_STATE_CHECK_PROCESSING ->
                IF is_processing THEN APP_STATE_PUP ELSE state
           [] state = APP_STATE_PUP -> APP_STATE_MUTE
           [] state = APP_STATE_MUTE -> APP_STATE_UNMUTE
           [] state = APP_STATE_UNMUTE -> APP_STATE_HIBERNATE
           [] state = APP_STATE_HIBERNATE -> APP_STATE_WAKE
           [] state = APP_STATE_WAKE -> APP_STATE_CAL_PDN
           [] OTHER -> state

SwitchNext(state, pressed, is_processing) ==
    CASE state = APP_STATE_CAL_PDN ->
            IF pressed THEN APP_STATE_CAL_BOOTED ELSE state
      [] state = APP_STATE_CAL_BOOTED ->
            IF pressed THEN APP_STATE_CAL_PUP ELSE state
      [] state = APP_STATE_CAL_PUP ->
            IF pressed THEN APP_STATE_CALIBRATED ELSE state
      [] state = APP_STATE_CALIBRATED ->
            IF pressed THEN APP_STATE_PDN ELSE state
      [] state = APP_STATE_PDN ->
            IF pressed THEN APP_STATE_BOOTED ELSE state
      [] state = APP_STATE_BOOTED ->
            IF pressed THEN APP_STATE_CHECK_PROCESSING ELSE state
      [] state = APP_STATE_CHECK_PROCESSING ->
            IF pressed /\ is_processing THEN APP_STATE_PUP ELSE state
      [] state = APP_STATE_PUP ->
            IF pressed THEN APP_STATE_MUTE ELSE state
      [] state = APP_STATE_MUTE ->
            IF pressed THEN APP_STATE_UNMUTE ELSE state
      [] state = APP_STATE_UNMUTE ->
            IF pressed THEN APP_STATE_HIBERNATE ELSE state
      [] state = APP_STATE_HIBERNATE ->
            IF pressed THEN APP_STATE_WAKE ELSE state
      [] state = APP_STATE_WAKE ->
            IF pressed THEN APP_STATE_CAL_PDN ELSE state
      [] OTHER -> state

\* The value a call of the switch writes through its pointer argument.
Out(call, dut_id, is_processing) ==
    CASE call.fn = "bsp_dut_get_id" -> dut_id
      [] call.fn = "bsp_dut_is_processing" -> BoolStr(is_processing)
      [] OTHER -> ""

----------------------------------------------------------------------------
(* Statements of main(), main.c:78-224 *)

Init ==
    /\ pc = "bsp_initialize"
    /\ app_audio_state = APP_STATE_CAL_PDN
    /\ bsp_pb_pressed = FALSE
    /\ exit_status = <<>>
    /\ iter = <<>>
    /\ steps = <<>>
    /\ last_cb = NoCallback
    /\ presses = 0
    /\ check_fails = 0
    /\ hist = <<>>

\* What the BSP may do with the registered callback during one call.
Callbacks == Statuses \cup {NoCallback}

\* exit(1) at main.c:62, reached from inside the BSP call `call`.
Exit(call, cb) ==
    /\ pc' = "exited"
    /\ exit_status' = <<1>>
    /\ last_cb' = cb
    /\ iter' = Append(iter, Cut(call))
    /\ UNCHANGED <<app_audio_state, bsp_pb_pressed, presses, check_fails,
                   hist>>

\* The BSP call `call` returns `ret`; control moves on to `next`.
Return(call, cb, ret, next) ==
    /\ pc' = next
    /\ last_cb' = cb
    /\ iter' = Append(iter, Done(call, "", ret))
    /\ UNCHANGED <<app_audio_state, exit_status, presses, check_fails, hist>>

\* The controlling expression of while (1), main.c:85.
while_1_UntilWake == app_audio_state /= APP_STATE_WAKE

while_1 == TRUE

\* The loop test after the BSP call `call` returned `ret`: round the loop,
\* or past it to exit(1) at main.c:221.
LoopTest(call, cb, ret) ==
    IF while_1
    THEN Return(call, cb, ret, "bsp_dut_process")
    ELSE /\ pc' = "exited"
         /\ exit_status' = <<1>>
         /\ last_cb' = cb
         /\ iter' = Append(iter, Done(call, "", ret))
         /\ UNCHANGED <<app_audio_state, presses, check_fails, hist>>

\* main.c:82
bsp_initialize ==
    /\ pc = "bsp_initialize"
    /\ \E cb \in Callbacks, ret \in Statuses :
          LET call == Call("bsp_initialize", "app_bsp_callback") IN
          /\ IF cb /= NoCallback /\ app_bsp_callback(cb)
             THEN Exit(call, cb)
             ELSE Return(call, cb, ret, "bsp_dut_initialize")
                  /\ UNCHANGED bsp_pb_pressed
          /\ UNCHANGED steps

\* main.c:83
bsp_dut_initialize ==
    /\ pc = "bsp_dut_initialize"
    /\ \E cb \in Callbacks, ret \in Statuses :
          LET call == Call("bsp_dut_initialize", "") IN
          /\ IF cb /= NoCallback /\ app_bsp_callback(cb)
             THEN Exit(call, cb)
             ELSE LoopTest(call, cb, ret)
                  /\ UNCHANGED bsp_pb_pressed
          /\ UNCHANGED steps

\* main.c:87, first statement of the loop body.
bsp_dut_process_Skipped ==
    /\ pc = "bsp_dut_process"
    /\ pc' = "bsp_was_pb_pressed"
    /\ iter' = <<>>
    /\ steps' = <<>>
    /\ last_cb' = NoCallback
    /\ UNCHANGED <<app_audio_state, bsp_pb_pressed, exit_status, presses,
                   check_fails, hist>>

bsp_dut_process ==
    /\ pc = "bsp_dut_process"
    /\ \E cb \in Callbacks, ret \in Statuses :
          LET call == Call("bsp_dut_process", "") IN
          /\ steps' = <<"bsp_dut_process">>
          /\ IF cb /= NoCallback /\ app_bsp_callback(cb)
             THEN /\ pc' = "exited"
                  /\ exit_status' = <<1>>
                  /\ last_cb' = cb
                  /\ iter' = <<Cut(call)>>
                  /\ UNCHANGED <<app_audio_state, bsp_pb_pressed, presses,
                                 check_fails, hist>>
             ELSE /\ pc' = "bsp_was_pb_pressed"
                  /\ last_cb' = cb
                  /\ iter' = <<Done(call, "", ret)>>
                  /\ UNCHANGED <<app_audio_state, bsp_pb_pressed, exit_status,
                                 presses, check_fails, hist>>

\* main.c:88-91
bsp_was_pb_pressed ==
    /\ pc = "bsp_was_pb_pressed"
    /\ \E cb \in Callbacks, pressed \in BOOLEAN :
          LET call == Call("bsp_was_pb_pressed", BSP_PB_ID_USER) IN
          /\ steps' = Append(steps, "bsp_was_pb_pressed")
          /\ IF cb /= NoCallback /\ app_bsp_callback(cb)
             THEN Exit(call, cb)
             ELSE /\ Return(call, cb, BoolStr(pressed), "switch")
                  /\ bsp_pb_pressed' = IF pressed THEN TRUE ELSE bsp_pb_pressed

\* The calls of `log` that command the audio source or the DUT; the two
\* queries, bsp_dut_get_id and bsp_dut_is_processing, command nothing.
Commands(log) ==
    SelectSeq(Issued(log),
              LAMBDA c : c.fn \notin {"bsp_dut_get_id", "bsp_dut_is_processing"})

Latest(h) ==
    IF Len(h) > HistLen THEN SubSeq(h, Len(h) - HistLen + 1, Len(h)) ELSE h

\* Largest value presses counts to.
MaxPresses == Cardinality(AppStates) + MaxCheckFails

UpTo(n, max) == IF n > max THEN max ELSE n

\* main.c:93-214.  k is the call of the case during which the BSP invokes
\* the callback with status cb (k = 0: it does not invoke it).
switch_ChecksReturns ==
    /\ pc = "switch"
    /\ \E dut_id \in DutIds, is_processing \in BOOLEAN, cb \in Statuses :
          LET calls == SwitchCalls(app_audio_state, bsp_pb_pressed, dut_id)
              done(i, rets) ==
                  Done(calls[i], Out(calls[i], dut_id, is_processing), rets[i])
              checking == /\ app_audio_state = APP_STATE_CHECK_PROCESSING
                          /\ bsp_pb_pressed
          IN
          /\ steps' = Append(steps, "switch")
          /\ \E k \in 0 .. Len(calls), rets \in [DOMAIN calls -> Statuses] :
                IF k > 0 /\ app_bsp_callback(cb)
                THEN /\ pc' = "exited"
                     /\ exit_status' = <<1>>
                     /\ last_cb' = cb
                     /\ iter' = iter \o [i \in 1 .. k |->
                                   IF i < k THEN done(i, rets)
                                            ELSE Cut(calls[i])]
                     /\ hist' = Latest(hist \o Commands(SubSeq(calls, 1, k)))
                     /\ UNCHANGED <<app_audio_state, bsp_pb_pressed, presses,
                                    check_fails>>
                ELSE /\ pc' = "clear"
                     /\ last_cb' = IF k > 0 THEN cb ELSE NoCallback
                     /\ iter' = iter \o [i \in DOMAIN calls |-> done(i, rets)]
                     /\ hist' = Latest(hist \o Commands(calls))
                     /\ app_audio_state' =
                            IF \A i \in DOMAIN rets : rets[i] = BSP_STATUS_OK
                            THEN SwitchNext(app_audio_state, bsp_pb_pressed,
                                            is_processing)
                            ELSE app_audio_state
                     /\ presses' =
                            IF ~bsp_pb_pressed THEN presses
                            ELSE IF app_audio_state = APP_STATE_CAL_PDN THEN 1
                            ELSE UpTo(presses + 1, MaxPresses)
                     /\ check_fails' =
                            IF ~bsp_pb_pressed THEN check_fails
                            ELSE IF app_audio_state = APP_STATE_CAL_PDN THEN 0
                            ELSE IF checking /\ ~is_processing
                                 THEN UpTo(check_fails + 1, MaxCheckFails)
                            ELSE check_fails
                     /\ UNCHANGED <<bsp_pb_pressed, exit_status>>

switch ==
    /\ pc = "switch"
    /\ \E dut_id \in DutIds, is_processing \in BOOLEAN, cb \in Statuses :
          LET calls == SwitchCalls(app_audio_state, bsp_pb_pressed, dut_id)
              done(i, rets) ==
                  Done(calls[i], Out(calls[i], dut_id, is_processing), rets[i])
              checking == /\ app_audio_state = APP_STATE_CHECK_PROCESSING
                          /\ bsp_pb_pressed
          IN
          /\ steps' = Append(steps, "switch")
          /\ \E k \in 0 .. Len(calls), rets \in [DOMAIN calls -> Statuses] :
                IF k > 0 /\ app_bsp_callback(cb)
                THEN /\ pc' = "exited"
                     /\ exit_status' = <<1>>
                     /\ last_cb' = cb
                     /\ iter' = iter \o [i \in 1 .. k |->
                                   IF i < k THEN done(i, rets)
                                            ELSE Cut(calls[i])]
                     /\ hist' = Latest(hist \o Commands(SubSeq(calls, 1, k)))
                     /\ UNCHANGED <<app_audio_state, bsp_pb_pressed, presses,
                                    check_fails>>
                ELSE /\ pc' = "clear"
                     /\ last_cb' = IF k > 0 THEN cb ELSE NoCallback
                     /\ iter' = iter \o [i \in DOMAIN calls |-> done(i, rets)]
                     /\ hist' = Latest(hist \o Commands(calls))
                     /\ app_audio_state' =
                            SwitchNext(app_audio_state, bsp_pb_pressed,
                                       is_processing)
                     /\ presses' =
                            IF ~bsp_pb_pressed THEN presses
                            ELSE IF app_audio_state = APP_STATE_CAL_PDN THEN 1
                            ELSE UpTo(presses + 1, MaxPresses)
                     /\ check_fails' =
                            IF ~bsp_pb_pressed THEN check_fails
                            ELSE IF app_audio_state = APP_STATE_CAL_PDN THEN 0
                            ELSE IF checking /\ ~is_processing
                                 THEN UpTo(check_fails + 1, MaxCheckFails)
                            ELSE check_fails
                     /\ UNCHANGED <<bsp_pb_pressed, exit_status>>

\* main.c:216
clear_Skipped ==
    /\ pc = "clear"
    /\ pc' = "bsp_sleep"
    /\ steps' = Append(steps, "clear")
    /\ last_cb' = NoCallback
    /\ UNCHANGED <<app_audio_state, bsp_pb_pressed, exit_status, iter,
                   presses, check_fails, hist>>

clear ==
    /\ pc = "clear"
    /\ bsp_pb_pressed' = FALSE
    /\ pc' = "bsp_sleep"
    /\ steps' = Append(steps, "clear")
    /\ last_cb' = NoCallback
    /\ UNCHANGED <<app_audio_state, exit_status, iter, presses, check_fails,
                   hist>>

\* main.c:218, last statement of the loop body; while (1) goes round.
bsp_sleep ==
    /\ pc = "bsp_sleep"
    /\ \E cb \in Callbacks, ret \in Statuses :
          LET call == Call("bsp_sleep", "") IN
          /\ steps' = Append(steps, "bsp_sleep")
          /\ IF cb /= NoCallback /\ app_bsp_callback(cb)
             THEN Exit(call, cb)
             ELSE LoopTest(call, cb, ret)
                  /\ UNCHANGED bsp_pb_pressed

Next ==
    \/ bsp_initialize
    \/ bsp_dut_initialize
    \/ bsp_dut_process
    \/ bsp_was_pb_pressed
    \/ switch
    \/ clear
    \/ bsp_sleep

Spec == Init /\ [][Next]_vars

\* main() runs on one thread and every BSP call returns or exits: a
\* statement that can execute does.
FairSpec == Spec /\ WF_vars(Next)

TypeOK ==
    /\ pc \in {"bsp_initialize", "bsp_dut_initialize", "bsp_dut_process",
               "bsp_was_pb_pressed", "switch", "clear", "bsp_sleep", "exited"}
    /\ bsp_pb_pressed \in BOOLEAN
    /\ exit_status \in {<<>>, <<1>>}
    /\ last_cb \in Callbacks
    /\ presses \in 0 .. MaxPresses
    /\ Len(hist) <= HistLen
    /\ check_fails \in 0 .. MaxCheckFails

----------------------------------------------------------------------------
(* The transition table as the specification states it (section 4.1),      *)
(* against which the switch is checked.                                    *)

TableNext ==
    [s \in AppStates |->
        CASE s = APP_STATE_CAL_PDN          -> APP_STATE_CAL_BOOTED
          [] s = APP_STATE_CAL_BOOTED       -> APP_STATE_CAL_PUP
          [] s = APP_STATE_CAL_PUP          -> APP_STATE_CALIBRATED
          [] s = APP_STATE_CALIBRATED       -> APP_STATE_PDN
          [] s = APP_STATE_PDN              -> APP_STATE_BOOTED
          [] s = APP_STATE_BOOTED           -> APP_STATE_CHECK_PROCESSING
          [] s = APP_STATE_CHECK_PROCESSING -> APP_STATE_PUP
          [] s = APP_STATE_PUP              -> APP_STATE_MUTE
          [] s = APP_STATE_MUTE             -> APP_STATE_UNMUTE
          [] s = APP_STATE_UNMUTE           -> APP_STATE_HIBERNATE
          [] s = APP_STATE_HIBERNATE        -> APP_STATE_WAKE
          [] s = APP_STATE_WAKE             -> APP_STATE_CAL_PDN]

\* A dispatch pass that runs to the end of the switch.
DispatchPass == pc = "switch" /\ pc' = "clear"

\* The BSP calls the current step issues (for steps that append to iter).
NewCalls ==
    IF pc = "bsp_dut_process" THEN iter'
    ELSE SubSeq(iter', Len(iter) + 1, Len(iter'))

Fns(log) == [i \in DOMAIN log |-> log[i].fn]

----------------------------------------------------------------------------
(* C1: in every state other than CHECK_PROCESSING, a dispatch pass that    *)
(* sees the edge flag true changes app_audio_state exactly once, to the    *)
(* state the transition table gives for the current state.                 *)
C1_OneTableTransition ==
    [][(/\ DispatchPass
        /\ bsp_pb_pressed
        /\ app_audio_state /= APP_STATE_CHECK_PROCESSING)
       => /\ app_audio_state' = TableNext[app_audio_state]
          /\ app_audio_state' /= app_audio_state]_vars

\* The last row of the table has been taken: WAKE -> CAL_POWER_DOWN.
C1_Witness ==
    /\ pc = "clear"
    /\ bsp_pb_pressed
    /\ app_audio_state = APP_STATE_CAL_PDN
    /\ Fns(iter) = <<"bsp_dut_process", "bsp_was_pb_pressed", "bsp_dut_wake">>

(* C2 as stated: starting from CAL_POWER_DOWN, exactly 11 accepted presses *)
(* with the processing status true at the check return the state to        *)
(* CAL_POWER_DOWN.                                                         *)
C2_ElevenPresses ==
    (presses > 0 /\ check_fails = 0)
        => (app_audio_state = APP_STATE_CAL_PDN <=> presses = 11)

(* C2 amended: starting from CAL_POWER_DOWN, exactly 12 accepted presses   *)
(* with the processing status true at the check return the state to        *)
(* CAL_POWER_DOWN, and no smaller number does.                             *)
C2_TwelvePresses ==
    (presses > 0 /\ check_fails = 0)
        => (app_audio_state = APP_STATE_CAL_PDN <=> presses = 12)

C2_Witness ==
    /\ pc = "bsp_sleep"
    /\ app_audio_state = APP_STATE_CAL_PDN
    /\ presses = 12
    /\ check_fails = 0

(* C3: in CHECK_PROCESSING with the edge flag true the dispatch pass       *)
(* issues the processing-status query and no other call; the state stays   *)
(* CHECK_PROCESSING when the status read is false and becomes POWERED_UP   *)
(* when it is true; either way the clear that follows leaves the edge flag *)
(* false and the state as the pass left it.                                *)
C3_CheckProcessing ==
    [][/\ (/\ DispatchPass
           /\ bsp_pb_pressed
           /\ app_audio_state = APP_STATE_CHECK_PROCESSING)
          => /\ Fns(NewCalls) = <<"bsp_dut_is_processing">>
             /\ NewCalls[1].out \in {"true", "false"}
             /\ NewCalls[1].out = "false"
                   => app_audio_state' = APP_STATE_CHECK_PROCESSING
             /\ NewCalls[1].out = "true"
                   => app_audio_state' = APP_STATE_PUP
       /\ (pc = "clear" /\ app_audio_state = APP_STATE_CHECK_PROCESSING)
          => /\ ~bsp_pb_pressed'
             /\ app_audio_state' = APP_STATE_CHECK_PROCESSING]_vars

\* A press was consumed by a check that read false.
C3_Witness ==
    /\ pc = "bsp_sleep"
    /\ app_audio_state = APP_STATE_CHECK_PROCESSING
    /\ ~bsp_pb_pressed
    /\ Len(iter) = 3
    /\ iter[2].ret = "true"
    /\ iter[3].fn = "bsp_dut_is_processing"
    /\ iter[3].out = "false"

(* C4: in any state, a dispatch pass with the edge flag false leaves the   *)
(* state unchanged and issues no call; the iteration around it issues      *)
(* only the servicing call, the button sample and the sleep.               *)
C4_NoEdgeNoAction ==
    [][/\ (pc = "switch" /\ ~bsp_pb_pressed)
          => /\ pc' = "clear"
             /\ app_audio_state' = app_audio_state
             /\ NewCalls = <<>>
       /\ (pc = "clear" /\ ~bsp_pb_pressed)
          => Fns(iter) = <<"bsp_dut_process", "bsp_was_pb_pressed">>
       /\ (pc = "bsp_sleep" /\ pc' = "bsp_dut_process" /\ Len(iter) = 2)
          => Fns(iter') = <<"bsp_dut_process", "bsp_was_pb_pressed",
                            "bsp_sleep">>]_vars

\* An iteration without a press has completed in CHECK_PROCESSING.
C4_Witness ==
    /\ pc = "bsp_dut_process"
    /\ app_audio_state = APP_STATE_CHECK_PROCESSING
    /\ Len(iter) = 3
    /\ iter[2].ret = "false"
    /\ iter[3].fn = "bsp_sleep"

(* C5: the edge flag is false when the sequencer goes to sleep and when    *)
(* the sleep returns, whatever the button sample of the iteration was.     *)
C5_EdgeClearAtSleep ==
    pc \in {"bsp_sleep", "bsp_dut_process"} => ~bsp_pb_pressed

\* About to sleep after an iteration whose sample reported a press.
C5_Witness ==
    /\ pc = "bsp_sleep"
    /\ ~bsp_pb_pressed
    /\ iter[2].ret = "true"
    /\ app_audio_state = APP_STATE_MUTE

GainCalls(log) == {i \in DOMAIN log : log[i].fn = "bsp_dut_set_dig_gain"}

(* C6: the POWERED_DOWN -> BOOTED transition sets the digital gain exactly *)
(* once, after the identity query: to -6 when the identity read is LEFT,   *)
(* to -10 for every other identity; no other step sets the gain.           *)
C6_GainSelection ==
    [][LET q == NewCalls
           pdn == /\ pc = "switch"
                  /\ app_audio_state = APP_STATE_PDN
                  /\ bsp_pb_pressed
       IN
       /\ ~pdn => GainCalls(q) = {}
       /\ (pdn /\ pc' = "clear")
          => /\ app_audio_state' = APP_STATE_BOOTED
             /\ Cardinality(GainCalls(q)) = 1
             /\ \E i \in DOMAIN q :
                   /\ q[i].fn = "bsp_dut_get_id"
                   /\ \A j \in GainCalls(q) :
                         /\ j > i
                         /\ q[j].arg = IF q[i].out = BSP_DUT_ID_LEFT
                                       THEN "-6" ELSE "-10"]_vars

\* The gain was chosen for an identity that is not LEFT.
C6_Witness ==
    /\ pc = "clear"
    /\ app_audio_state = APP_STATE_BOOTED
    /\ Len(iter) = 8
    /\ iter[7].out = "BSP_DUT_ID_RIGHT"
    /\ iter[8].fn = "bsp_dut_set_dig_gain"
    /\ iter[8].arg = "-10"

\* The statement that follows each statement of main() when no exit occurs.
FlowNext ==
    [p \in {"bsp_initialize", "bsp_dut_initialize", "bsp_dut_process",
            "bsp_was_pb_pressed", "switch", "clear", "bsp_sleep"} |->
        CASE p = "bsp_initialize"     -> "bsp_dut_initialize"
          [] p = "bsp_dut_initialize" -> "bsp_dut_process"
          [] p = "bsp_dut_process"    -> "bsp_was_pb_pressed"
          [] p = "bsp_was_pb_pressed" -> "switch"
          [] p = "switch"             -> "clear"
          [] p = "clear"              -> "bsp_sleep"
          [] p = "bsp_sleep"          -> "bsp_dut_process"]

(* C7: a non-OK status given to the fatal callback terminates the process  *)
(* with exit status 1, the state variable is left as it was and no step    *)
(* follows; an OK status lets the statement complete as it does without    *)
(* the callback, and the process terminates in no other way.               *)
C7_FatalCallback ==
    /\ [](last_cb \notin {NoCallback, BSP_STATUS_OK}
             <=> pc = "exited")
    /\ [](pc = "exited" <=> exit_status = <<1>>)
    /\ [](pc /= "exited" => exit_status = <<>>)
    /\ [][/\ pc /= "exited"
          /\ pc' = "exited" => app_audio_state' = app_audio_state
          /\ last_cb' = BSP_STATUS_OK
             => /\ pc' = FlowNext[pc]
                /\ pc /= "switch" => app_audio_state' = app_audio_state
                /\ pc = "switch"
                   => app_audio_state' \in
                         {app_audio_state, TableNext[app_audio_state]}]_vars

\* The process exited inside bsp_dut_reset of the POWERED_DOWN row.
C7_Witness ==
    /\ pc = "exited"
    /\ exit_status = <<1>>
    /\ app_audio_state = APP_STATE_PDN
    /\ Len(iter) = 5
    /\ iter[5].fn = "bsp_dut_reset"
    /\ iter[5].ret = "noreturn"

(* C8: app_audio_state always holds one of the twelve defined values, and  *)
(* every change of it goes from a state to its successor in the table.     *)
C8_TwelveStatesForward ==
    /\ [](app_audio_state \in AppStates)
    /\ [][app_audio_state' /= app_audio_state
             => app_audio_state' = TableNext[app_audio_state]]_vars

\* CHECK_PROCESSING was left for POWERED_UP after a check that read false.
C8_Witness ==
    /\ pc = "clear"
    /\ app_audio_state = APP_STATE_PUP
    /\ check_fails = 1
    /\ presses = 8

IsPrefix(p, q) == Len(p) <= Len(q) /\ p = SubSeq(q, 1, Len(p))

\* The calls the table lists for each row, as <<function, argument>>.
TableCalls(s, identity) ==
    CASE s = APP_STATE_CAL_PDN ->
            << <<"bsp_audio_stop", "">>,
               <<"bsp_audio_play_record", "BSP_PLAY_SILENCE">>,
               <<"bsp_dut_reset", "">>,
               <<"bsp_dut_boot", "true">> >>
      [] s = APP_STATE_PDN ->
            << <<"bsp_audio_stop", "">>,
               <<"bsp_audio_play_record", "BSP_PLAY_STEREO_1KHZ_20DBFS">>,
               <<"bsp_dut_reset", "">>,
               <<"bsp_dut_boot", "false">>,
               <<"bsp_dut_get_id", "">>,
               <<"bsp_dut_set_dig_gain",
                 IF identity = "BSP_DUT_ID_LEFT" THEN "-6" ELSE "-10">> >>
      [] s \in {APP_STATE_CAL_BOOTED, APP_STATE_BOOTED} ->
            << <<"bsp_dut_power_up", "">> >>
      [] s = APP_STATE_CAL_PUP -> << <<"bsp_dut_calibrate", "">> >>
      [] s \in {APP_STATE_CALIBRATED, APP_STATE_UNMUTE} ->
            << <<"bsp_dut_power_down", "">> >>
      [] s = APP_STATE_CHECK_PROCESSING ->
            << <<"bsp_dut_is_processing", "">> >>
      [] s = APP_STATE_PUP -> << <<"bsp_dut_mute", "true">> >>
      [] s = APP_STATE_MUTE -> << <<"bsp_dut_mute", "false">> >>
      [] s = APP_STATE_HIBERNATE -> << <<"bsp_dut_hibernate", "">> >>
      [] s = APP_STATE_WAKE -> << <<"bsp_dut_wake", "">> >>

FnArgs(log) == [i \in DOMAIN log |-> <<log[i].fn, log[i].arg>>]

IdentityRead(log) ==
    IF \E i \in DOMAIN log : log[i].fn = "bsp_dut_get_id"
    THEN log[CHOOSE i \in DOMAIN log : log[i].fn = "bsp_dut_get_id"].out
    ELSE ""

(* C9: a dispatch pass with the edge flag true issues exactly the calls    *)
(* the table lists for the current state, with the listed arguments and in *)
(* the listed order, and the state changes only once all of them have been *)
(* issued: a pass that ends inside one of them has issued a prefix of the  *)
(* list and leaves the state as it was.                                    *)
C9_CallsInTableOrder ==
    [][(pc = "switch" /\ bsp_pb_pressed)
       => LET q == NewCalls
              listed == TableCalls(app_audio_state, IdentityRead(q))
          IN IF pc' = "clear"
             THEN FnArgs(q) = listed
             ELSE /\ IsPrefix(FnArgs(q), listed)
                  /\ q /= <<>>
                  /\ app_audio_state' = app_audio_state]_vars

\* The four calls of the CAL_POWER_DOWN row were issued.
C9_Witness ==
    /\ pc = "clear"
    /\ bsp_pb_pressed
    /\ app_audio_state = APP_STATE_CAL_BOOTED
    /\ Len(iter) = 6
    /\ iter[6].fn = "bsp_dut_boot"

LoopOrder ==
    <<"bsp_dut_process", "bsp_was_pb_pressed", "switch", "clear", "bsp_sleep">>

Count(log, fn) == Cardinality({i \in DOMAIN log : log[i].fn = fn})

(* C10: every loop iteration executes DUT servicing, button sample,        *)
(* dispatch, clear and sleep in this order, and issues the servicing call  *)
(* and the button sample exactly once each, first and second of its calls. *)
C10_IterationOrder ==
    /\ pc = "bsp_was_pb_pressed" => steps = SubSeq(LoopOrder, 1, 1)
    /\ pc = "switch" => steps = SubSeq(LoopOrder, 1, 2)
    /\ pc = "clear" => steps = SubSeq(LoopOrder, 1, 3)
    /\ pc = "bsp_sleep" => steps = SubSeq(LoopOrder, 1, 4)
    /\ (pc = "bsp_dut_process" /\ steps /= <<>>)
       => /\ steps = LoopOrder
          /\ Count(iter, "bsp_dut_process") = 1
          /\ Count(iter, "bsp_was_pb_pressed") = 1
          /\ iter[1].fn = "bsp_dut_process"
          /\ iter[2].fn = "bsp_was_pb_pressed"
          /\ iter[Len(iter)].fn = "bsp_sleep"
    /\ (pc \in {"switch", "clear", "bsp_sleep"})
       => /\ Count(iter, "bsp_dut_process") = 1
          /\ Count(iter, "bsp_was_pb_pressed") = 1

\* The iteration of the POWERED_DOWN row has completed.
C10_Witness ==
    /\ pc = "bsp_dut_process"
    /\ steps = LoopOrder
    /\ app_audio_state = APP_STATE_BOOTED
    /\ Len(iter) = 9

----------------------------------------------------------------------------
InitPcs == {"bsp_initialize", "bsp_dut_initialize"}

(* C11 as stated: any failure of the BSP initialization or of the DUT      *)
(* initialization is fatal, so the statements after a failed               *)
(* initialization call are never reached.                                  *)
C11_AnyInitFailureFatal ==
    (pc \in {"bsp_dut_initialize", "bsp_dut_process"} /\ steps = <<>>)
        => \A i \in DOMAIN iter : iter[i].ret = BSP_STATUS_OK

(* C11 amended: a failure of bsp_initialize or bsp_dut_initialize that the *)
(* BSP reports to the fatal callback with a non-OK status is fatal: the    *)
(* process exits with status 1 before the loop is entered, with the state  *)
(* still CAL_POWER_DOWN and no command issued, and no statement follows;   *)
(* neither initialization call is ever executed a second time; a failure   *)
(* status that an initialization call only returns is discarded and the    *)
(* next statement runs.                                                    *)
C11_CallbackInitFailureFatal ==
    /\ [][/\ (pc \in InitPcs /\ last_cb' \notin {NoCallback, BSP_STATUS_OK})
             => /\ pc' = "exited"
                /\ exit_status' = <<1>>
          /\ (pc \in InitPcs /\ last_cb' \in {NoCallback, BSP_STATUS_OK})
             => pc' = FlowNext[pc]
          /\ pc /= "exited"
          /\ pc' /= "bsp_initialize"
          /\ pc' = "bsp_dut_initialize" => pc = "bsp_initialize"]_vars
    /\ []((pc = "exited" /\ steps = <<>>)
             => /\ app_audio_state = APP_STATE_CAL_PDN
                /\ presses = 0
                /\ hist = <<>>
                /\ exit_status = <<1>>
                /\ Count(iter, "bsp_initialize") <= 1
                /\ Count(iter, "bsp_dut_initialize") <= 1)

\* The DUT initialization ended in exit(1) after the BSP initialization had
\* returned a failure status that was discarded.
C11_Witness ==
    /\ pc = "exited"
    /\ steps = <<>>
    /\ Len(iter) = 2
    /\ iter[1].ret = "BSP_STATUS_FAIL"
    /\ iter[2].fn = "bsp_dut_initialize"
    /\ iter[2].ret = "noreturn"

LoopPcs == {"bsp_dut_process", "bsp_was_pb_pressed", "switch", "clear",
            "bsp_sleep"}

(* C12: the process terminates only through the fatal callback: whenever   *)
(* it has exited, the callback had just received a non-OK status, so the   *)
(* exit(1) after the loop is never the one that ran; a sleep that returns  *)
(* is followed by the next iteration in every state; and as long as the    *)
(* callback never receives a non-OK status, every statement of the loop    *)
(* body is executed again and again.                                       *)
C12_LoopNeverEnds ==
    /\ [](pc = "exited" => last_cb \notin {NoCallback, BSP_STATUS_OK})
    /\ [][(pc = "bsp_sleep" /\ pc' /= "exited")
             => pc' = "bsp_dut_process"]_vars
    /\ ([](last_cb \in {NoCallback, BSP_STATUS_OK})
           => \A p \in LoopPcs : []<>(pc = p))

\* After a whole cycle the sleep returned, the callback having been given
\* an OK status meanwhile, and the loop went round.
C12_Witness ==
    /\ pc = "bsp_dut_process"
    /\ steps = LoopOrder
    /\ last_cb = BSP_STATUS_OK
    /\ app_audio_state = APP_STATE_CAL_PDN
    /\ presses = 12

(* C13: the edge flag is false when the button is sampled, and at the      *)
(* dispatch and at the clear that follows it equals the button sample of   *)
(* the same iteration: a press reported in one iteration is never seen by  *)
(* the dispatch of a later one.                                            *)
C13_EdgeIsSampleOfIteration ==
    /\ pc = "bsp_was_pb_pressed" => ~bsp_pb_pressed
    /\ pc \in {"switch", "clear"}
          => (bsp_pb_pressed <=> iter[2].ret = "true")

\* A dispatch about to run without a press, three presses having been
\* consumed by earlier iterations.
C13_Witness ==
    /\ pc = "switch"
    /\ ~bsp_pb_pressed
    /\ iter[2].ret = "false"
    /\ presses = 3
    /\ app_audio_state = APP_STATE_CALIBRATED

(* C14 as stated: every iteration that runs with the state equal to        *)
(* CHECK_PROCESSING issues the processing-status query exactly once, and   *)
(* iterations in any other state never issue it.                           *)
C14_QueryInEveryCheckIteration ==
    [][/\ DispatchPass
          => Count(NewCalls, "bsp_dut_is_processing") =
                IF app_audio_state = APP_STATE_CHECK_PROCESSING
                THEN 1 ELSE 0
       /\ pc /= "switch" => Count(NewCalls, "bsp_dut_is_processing") = 0]_vars

(* C14 amended: an iteration that runs with the state equal to             *)
(* CHECK_PROCESSING issues the processing-status query exactly once when   *)
(* its button sample reported a press, and not at all when it did not;     *)
(* iterations in any other state never issue it.                           *)
C14_QueryOncePerPressedCheck ==
    [][/\ pc = "switch"
          => Count(NewCalls, "bsp_dut_is_processing") =
                IF /\ app_audio_state = APP_STATE_CHECK_PROCESSING
                   /\ iter[2].ret = "true"
                THEN 1 ELSE 0
       /\ pc /= "switch" => Count(NewCalls, "bsp_dut_is_processing") = 0]_vars

\* A dispatch in CHECK_PROCESSING has run without a press and without the
\* query.
C14_Witness ==
    /\ pc = "clear"
    /\ app_audio_state = APP_STATE_CHECK_PROCESSING
    /\ ~bsp_pb_pressed
    /\ Fns(iter) = <<"bsp_dut_process", "bsp_was_pb_pressed">>
    /\ iter[2].ret = "false"

(* C15: what the BSP and DUT calls return never influences the             *)
(* progression: a dispatch pass with the edge flag true in which some call *)
(* returned a failure still moves to the table's next state (in            *)
(* CHECK_PROCESSING: to POWERED_UP exactly when the status read is true),  *)
(* whatever identity was read; and outside the switch a call that returns, *)
(* with whatever status, is followed by the next statement with the state  *)
(* unchanged.                                                              *)
C15_ReturnsIgnored ==
    [][/\ (/\ DispatchPass
           /\ bsp_pb_pressed
           /\ \E i \in DOMAIN NewCalls : NewCalls[i].ret /= BSP_STATUS_OK)
          => app_audio_state' =
                IF app_audio_state = APP_STATE_CHECK_PROCESSING
                THEN IF NewCalls[1].out = "true"
                     THEN APP_STATE_PUP
                     ELSE APP_STATE_CHECK_PROCESSING
                ELSE TableNext[app_audio_state]
       /\ (pc \notin {"switch", "clear"} /\ pc' /= "exited")
          => /\ pc' = FlowNext[pc]
             /\ app_audio_state' = app_audio_state]_vars

\* The state advanced past a bsp_dut_power_up that returned a failure.
C15_Witness ==
    /\ pc = "clear"
    /\ bsp_pb_pressed
    /\ app_audio_state = APP_STATE_CAL_PUP
    /\ Len(iter) = 3
    /\ iter[3].fn = "bsp_dut_power_up"
    /\ iter[3].ret = "BSP_STATUS_FAIL"

----------------------------------------------------------------------------
(* Orderings of the commands issued by the switch, read off hist.          *)

\* Positions of hist holding a call of one of the functions in fns.
At(fns) == {i \in DOMAIN hist : hist[i].fn \in fns}

\* The latest position before i holding a call of one of fns, 0 if none.
Prev(i, fns) ==
    IF \E j \in At(fns) : j < i
    THEN CHOOSE j \in At(fns) : j < i /\ \A k \in At(fns) : k < i => k <= j
    ELSE 0

\* The earliest position after i holding a call of one of fns, 0 if none.
Succ(i, fns) ==
    IF \E j \in At(fns) : j > i
    THEN CHOOSE j \in At(fns) : j > i /\ \A k \in At(fns) : k > i => k >= j
    ELSE 0

Power == {"bsp_dut_power_up", "bsp_dut_power_down"}

\* hist is full: commands older than hist[1] may have been dropped, and a
\* predecessor that is not found may lie among them.
Dropped == Len(hist) = HistLen

(* C16: power-up and power-down calls alternate, the first being a         *)
(* power-up; every power-up follows a DUT reset and then a DUT boot, both  *)
(* issued after the previous power-down (or after the start); every        *)
(* power-down follows a power-up with no reset issued in between.          *)
C16_PowerAlternates ==
    /\ \A i \in At({"bsp_dut_power_up"}) :
          LET p == Prev(i, Power)
              b == Prev(i, {"bsp_dut_boot"})
              r == Prev(b, {"bsp_dut_reset"})
          IN /\ p > 0 => hist[p].fn = "bsp_dut_power_down"
             /\ \/ r > 0 /\ r > p /\ b > r
                \/ Dropped /\ r = 0 /\ p = 0
    /\ \A i \in At({"bsp_dut_power_down"}) :
          LET p == Prev(i, Power)
          IN \/ /\ p > 0
                /\ hist[p].fn = "bsp_dut_power_up"
                /\ Prev(i, {"bsp_dut_reset"}) < p
             \/ Dropped /\ p = 0 /\ Prev(i, {"bsp_dut_reset"}) = 0
    /\ (hist /= <<>> /\ hist[Len(hist)].fn \in Power)
          => Prev(Len(hist), {"bsp_dut_reset"}) > 0

\* The power-up of a second cycle has been issued: hist holds both
\* power-down calls of the first cycle before it.
C16_Witness ==
    /\ app_audio_state = APP_STATE_CAL_PUP
    /\ hist[Len(hist)].fn = "bsp_dut_power_up"
    /\ Cardinality(At({"bsp_dut_power_down"})) = 2
    /\ Cardinality(At({"bsp_dut_wake"})) = 1

(* C17: whenever the calibration routine is invoked, the most recent DUT   *)
(* boot was in calibration mode (never in normal mode), a power-up was     *)
(* issued after that boot and no power-down since, and the audio reference *)
(* most recently started is SILENCE; between two invocations of it a wake  *)
(* is issued, so it runs at most once per cycle.                           *)
C17_CalibrateInCalMode ==
    /\ \A i \in At({"bsp_dut_calibrate"}) :
          LET b == Prev(i, {"bsp_dut_boot"})
              u == Prev(i, Power)
              a == Prev(i, {"bsp_audio_play_record"})
              c == Prev(i, {"bsp_dut_calibrate"})
          IN /\ b > 0 => hist[b].arg = "true"
             /\ u > 0 => hist[u].fn = "bsp_dut_power_up" /\ u > b
             /\ a > 0 => hist[a].arg = "BSP_PLAY_SILENCE"
             /\ \/ a > 0 /\ b > a /\ u > b
                \/ Dropped /\ a = 0
             /\ c > 0 => Prev(i, {"bsp_dut_wake"}) > c
    /\ (hist /= <<>> /\ hist[Len(hist)].fn = "bsp_dut_calibrate")
          => Prev(Len(hist), {"bsp_audio_play_record"}) > 0

\* The calibration of a second cycle has been invoked.
C17_Witness ==
    /\ app_audio_state = APP_STATE_CALIBRATED
    /\ hist[Len(hist)].fn = "bsp_dut_calibrate"
    /\ Cardinality(At({"bsp_dut_calibrate"})) = 2

\* The argument of the latest bsp_audio_play_record, "none" before the first.
Reference ==
    LET a == Prev(Len(hist) + 1, {"bsp_audio_play_record"})
    IN IF a > 0 THEN hist[a].arg ELSE "none"

\* The process exited inside a call of the switch, part of a row issued.
ExitedInsideRow ==
    /\ pc = "exited"
    /\ steps /= <<>>
    /\ steps[Len(steps)] = "switch"

Lifecycle ==
    {"bsp_dut_reset", "bsp_dut_boot", "bsp_dut_power_up",
     "bsp_dut_power_down", "bsp_dut_calibrate", "bsp_dut_mute",
     "bsp_dut_set_dig_gain", "bsp_dut_hibernate", "bsp_dut_wake"}

\* The orderings of hibernate, wake and mute calls within hist.
HibernateOrder ==
    /\ \A i \in At({"bsp_dut_hibernate"}) :
          LET p == Prev(i, Power)
              n == Succ(i, Lifecycle)
          IN /\ \/ p > 0 /\ hist[p].fn = "bsp_dut_power_down"
                \/ Dropped /\ p = 0
             /\ n > 0 => hist[n].fn = "bsp_dut_wake"
    /\ \A i \in At({"bsp_dut_wake"}) :
          LET l == Prev(i, Lifecycle)
          IN \/ l > 0 /\ hist[l].fn = "bsp_dut_hibernate"
             \/ Dropped /\ l = 0
    /\ \A i \in At({"bsp_dut_power_down", "bsp_dut_hibernate"}) :
          LET m == Prev(i, {"bsp_dut_mute"})
          IN m > 0 => hist[m].arg = "false"
    /\ \A i \in At({"bsp_dut_mute"}) :
          LET n == Succ(i, Lifecycle)
          IN (hist[i].arg = "true" /\ n > 0)
                => hist[n].fn = "bsp_dut_mute" /\ hist[n].arg = "false"
    /\ (hist /= <<>> /\ hist[Len(hist)].fn \in
                           {"bsp_dut_hibernate", "bsp_dut_wake"})
          => Prev(Len(hist), {"bsp_dut_power_down"}) > 0

(* C19: a hibernate is issued only after a power-down with no power-up in  *)
(* between; a wake is issued only after a hibernate, with no other DUT     *)
(* lifecycle call between the two, and the lifecycle call that follows a   *)
(* hibernate is its wake, so the two are paired one to one; at every       *)
(* power-down and every hibernate the latest mute call, if any, is         *)
(* mute(false), and the lifecycle call that follows a mute(true) is        *)
(* mute(false); and when presses keep being reported and the callback     *)
(* never receives a non-OK status, every hibernate is followed by a wake.  *)
C19_HibernateWakePaired ==
    /\ []HibernateOrder
    /\ ([]<>(pc = "switch" /\ bsp_pb_pressed)
        /\ [](last_cb \in {NoCallback, BSP_STATUS_OK}))
          => ((hist /= <<>> /\ hist[Len(hist)].fn = "bsp_dut_hibernate")
                 ~> (hist /= <<>> /\ hist[Len(hist)].fn = "bsp_dut_wake"))

\* A hibernate and its wake have been issued after mute, unmute and
\* power-down.
C19_Witness ==
    /\ pc = "clear"
    /\ app_audio_state = APP_STATE_CAL_PDN
    /\ Len(hist) = 18
    /\ hist[17].fn = "bsp_dut_hibernate"
    /\ hist[18].fn = "bsp_dut_wake"
    /\ hist[14] = [fn |-> "bsp_dut_mute", arg |-> "true"]


\* The switch is about to be entered with the edge flag set.
PressedIteration == pc = "switch" /\ bsp_pb_pressed

\* The dispatch pass just completed issued the processing-status query.
CheckIssued ==
    /\ pc = "clear"
    /\ iter /= <<>>
    /\ iter[Len(iter)].fn = "bsp_dut_is_processing"

\* ... and the status it read was true.
CheckReadTrue == CheckIssued /\ iter[Len(iter)].out = "true"

(* C20: the sequencer never gets stuck: when the button is reported        *)
(* pressed in infinitely many iterations, the processing status is read    *)
(* true in infinitely many of the iterations that check it, and the fatal  *)
(* callback never receives a non-OK status, every one of the twelve states *)
(* is visited infinitely often; and CHECK_PROCESSING is the only state in  *)
(* which a dispatch pass that sees a press leaves the state unchanged.     *)
C20_NeverStuck ==
    /\ ( /\ []<>PressedIteration
         /\ ([]<>CheckIssued => []<>CheckReadTrue)
         /\ [](last_cb \in {NoCallback, BSP_STATUS_OK}) )
          => \A s \in AppStates : []<>(app_audio_state = s)
    /\ [][(DispatchPass /\ bsp_pb_pressed /\ app_audio_state' = app_audio_state)
             => app_audio_state = APP_STATE_CHECK_PROCESSING]_vars

\* A check read false once and the cycle was completed all the same: the
\* state is back at CAL_PDN after thirteen presses.
C20_Witness ==
    /\ pc = "clear"
    /\ app_audio_state = APP_STATE_CAL_PDN
    /\ check_fails = 1
    /\ presses = 13
    /\ hist[Len(hist)].fn = "bsp_dut_wake"

====
